---- MODULE Spec2Model ----
(***************************************************************************)
(* Model of src-tauri/src/main.rs: the translate_filename command (split,  *)
(* language detection, credential lookup, one HTTP request, response       *)
(* parsing, reassembly) and the create_zip_file command.                   *)
(*                                                                         *)
(* Strings that the code inspects character by character (file names,      *)
(* translated text) are sequences of one-character strings.  One behaviour *)
(* is one invocation of one command.                                       *)
(***************************************************************************)
EXTENDS Integers, Sequences, FiniteSets, TLC

\* ---------------------------------------------------------------- bounds
MaxLen == 3          \* longest file name
MaxText == 3         \* longest text in a response payload
MaxFiles == 2        \* longest input list of create_zip_file

\* ------------------------------------------------------------ alphabets
NameChars == {"a", " ", "."}
TextChars == {"b", " ", "\t"}

BoundedSeq(S, n) == UNION {[1..k -> S] : k \in 0..n}

Filenames == BoundedSeq(NameChars, MaxLen)
Texts == BoundedSeq(TextChars, MaxText)

\* Option<T>
None == [some |-> FALSE]
Some(x) == [some |-> TRUE, val |-> x]

\* Result<T, E>
Ok(x) == [ok |-> TRUE, val |-> x]
Err(e) == [ok |-> FALSE, err |-> e]

NoResult == [pending |-> TRUE]

\* -------------------------------------------------------- pure functions

\* position of the last '.' at or before i, 0 when there is none
RECURSIVE rfind(_, _)
rfind(s, i) ==
  IF i = 0 THEN 0
  ELSE IF s[i] = "." THEN i
  ELSE rfind(s, i - 1)

\* position of the first '.' at or after i, 0 when there is none
RECURSIVE find(_, _)
find(s, i) ==
  IF i > Len(s) THEN 0
  ELSE IF s[i] = "." THEN i
  ELSE find(s, i + 1)

\* filename.splitn(2, '.') reversed: what a split on the FIRST '.' gives
splitn2(s) ==
  LET i == find(s, 1)
  IN IF i = 0 THEN <<s>>
     ELSE <<SubSeq(s, i + 1, Len(s)), SubSeq(s, 1, i - 1)>>

\* filename.rsplitn(2, '.').collect(): the pieces from the right, at most
\* two: the text after the last '.', then everything before it
rsplitn2(s) ==
  LET i == rfind(s, Len(s))
  IN IF i = 0 THEN <<s>>
     ELSE <<SubSeq(s, i + 1, Len(s)), SubSeq(s, 1, i - 1)>>

\* match parts.as_slice() { [ext, name] => (name, Some(ext)), [name] => (name, None) }
split_parts(parts) ==
  IF Len(parts) = 2
  THEN [name |-> parts[2], ext |-> Some(parts[1])]
  ELSE [name |-> parts[1], ext |-> None]

\* char::is_whitespace
IsWhitespace(c) == c \in {" ", "\t"}

RECURSIVE trim_start(_)
trim_start(s) ==
  IF s = <<>> THEN s
  ELSE IF IsWhitespace(Head(s)) THEN trim_start(Tail(s))
  ELSE s

RECURSIVE trim_end(_)
trim_end(s) ==
  IF s = <<>> THEN s
  ELSE IF IsWhitespace(s[Len(s)]) THEN trim_end(SubSeq(s, 1, Len(s) - 1))
  ELSE s

trim_none(s) == s

\* str::trim
trim(s) == trim_end(trim_start(s))

\* translated_name.replace(" ", "_")
replace_spaces(s) == [k \in 1..Len(s) |-> IF s[k] = " " THEN "_" ELSE s[k]]

\* format!("{}.{}", translated_name, ext) / translated_name
join_ext(translated_name, e) ==
  IF e.some THEN translated_name \o <<".">> \o e.val ELSE translated_name

\* ------------------------------------------------- external collaborators

\* the closed set the detector is built from
Languages == {"English", "Chinese", "Japanese", "Korean"}

HasLetter(text) == \E k \in 1..Len(text) : text[k] \notin {" ", "."}

\* detector.detect_language_of(text): Option<Language>.  The classifier is
\* a library; any candidate language or None may come back, and text with
\* no letter in it has no words to classify, which gives None.
detect_language_of(text) ==
  IF HasLetter(text) THEN {None} \cup {Some(l) : l \in Languages} ELSE {None}

\* the process environment as env::var("QWEN_API_KEY") sees it
Environments == {"NotPresent", "NotUnicode", "sk-key"}

\* env::var(name): Result<String, VarError>
env_var(e) == IF e \in {"NotPresent", "NotUnicode"} THEN Err(e) ELSE Ok(e)

\* what the remote service can answer
HttpStatuses == {200, 401}
Codes == {"200", "InvalidApiKey"}
Messages == {"Invalid API-key provided."}
RawBodies == {"{", "<html>", "Bad Gateway"}

OptionOf(S) == {None} \cup {Some(x) : x \in S}

JsonBodies ==
  [json : {TRUE}, output : OptionOf(Texts), code : OptionOf(Codes),
   message : OptionOf(Messages)]
Bodies == [json : {FALSE}, raw : RawBodies] \cup JsonBodies

\* a deserializer in which output is optional as well
from_str_lenient(b) ==
  IF ~b.json
    THEN Err([serde |-> IF b.raw = "{" THEN "EOF while parsing an object"
                                       ELSE "expected value"])
  ELSE Ok([output |-> [text |-> IF b.output.some THEN b.output.val ELSE <<>>],
           code |-> b.code, message |-> b.message])

\* serde_json::from_str::<QwenResponse>(&response_text): output (with its
\* text) is a required field, code and message are optional
from_str(b) ==
  IF ~b.json
    THEN Err([serde |-> IF b.raw = "{" THEN "EOF while parsing an object"
                                       ELSE "expected value"])
  ELSE IF ~b.output.some THEN Err([serde |-> "missing field output"])
  ELSE Ok([output |-> [text |-> b.output.val], code |-> b.code,
           message |-> b.message])

\* response.message.unwrap_or_default()
unwrap_or_default(m) == IF m.some THEN m.val ELSE ""

\* match parsed_response { ... }: the Result translate_text returns
match_parsed(parsed) ==
  IF parsed.ok
    THEN IF parsed.val.code.some /\ parsed.val.code.val # "200"
           THEN Err(<<"API Error: ", unwrap_or_default(parsed.val.message)>>)
           ELSE Ok(trim(parsed.val.output.text))
    ELSE Err(<<"Failed to parse API response: ", parsed.err>>)

\* the files create_zip_file is given and finds on disk
Paths == {"/in/a", "/in/b"}
EntryNames == {"x", "y"}
Contents == {<<>>, <<7>>, <<7, 9>>}

\* a source file: None when it cannot be opened, else its bytes
FileSystems == [Paths -> OptionOf(Contents)]
FileLists == BoundedSeq(Paths \X EntryNames, MaxFiles)

\* ------------------------------------------------------------------ state
VARIABLES
  pc,          \* position of the running command
  env,         \* QWEN_API_KEY in the process environment
  filename,    \* translate_filename: its argument
  name,        \* translate_filename: the stem
  ext,         \* translate_filename: Option, the extension
  detected,    \* translate_text: Option<Language> the detector returned
  keyReads,    \* number of env::var("QWEN_API_KEY") calls of the invocation
  requests,    \* the HTTP requests sent, in order
  status,      \* Option, HTTP status of the response received
  body,        \* Option, response body received as text
  textResult,  \* what translate_text returned
  result,      \* what the command returned
  log,         \* lines appended to translator_app.log
  stderr,      \* lines printed with eprintln!
  files,       \* create_zip_file: its list of (src_path, filename)
  fs,          \* the source files on disk
  created,     \* create_zip_file: the destination file was created
  archive,     \* entries of the destination archive, in order
  opened       \* source paths opened so far, in order

tvars == <<env, filename, name, ext, detected, keyReads, requests, status,
           body, textResult, log, stderr>>
zvars == <<files, fs, created, archive, opened>>
vars == <<pc, result, tvars, zvars>>

TIdle ==
  /\ filename = <<>> /\ name = <<>> /\ ext = None
  /\ detected = None /\ keyReads = 0 /\ requests = <<>>
  /\ status = None /\ body = None
  /\ textResult = NoResult
  /\ log = <<>> /\ stderr = <<>>

ZIdle ==
  /\ files = <<>> /\ created = FALSE /\ archive = <<>> /\ opened = <<>>

\* ------------------------------------------------------ translate_filename

\* lines 116-130: log, split on the last '.', call translate_text
translate_filename_call(f) ==
  /\ pc = "idle"
  /\ LET p == split_parts(rsplitn2(f))
     IN /\ filename' = f
        /\ name' = p.name
        /\ ext' = p.ext
        /\ log' = log \o
             << <<"Attempting to translate filename: ", f>>,
                IF p.ext.some
                  THEN <<"Split filename: name, ext", p.name, p.ext.val>>
                  ELSE <<"No extension found, name", p.name>> >>
  /\ pc' = "detect"
  /\ UNCHANGED <<env, detected, keyReads, requests, status, body, textResult,
                 stderr, result, zvars>>

\* a detection step that goes on to the translation when nothing is detected
translate_text_detect_fallthrough(d) ==
  /\ pc = "detect"
  /\ d \in detect_language_of(name)
  /\ detected' = d
  /\ log' = log \o << <<"Translating text: ", name>> >>
  /\ IF d.some /\ d.val = "English"
       THEN /\ textResult' = Ok(name)
            /\ pc' = "ret"
       ELSE /\ textResult' = textResult
            /\ pc' = "key"
  /\ UNCHANGED <<env, filename, name, ext, keyReads, requests, status, body,
                 stderr, result, zvars>>

\* lines 49-62: log, detect the language, fail when undetected, return the
\* text as it is when it is English
translate_text_detect(d) ==
  /\ pc = "detect"
  /\ d \in detect_language_of(name)
  /\ detected' = d
  /\ log' = log \o << <<"Translating text: ", name>> >> \o
              (IF d.some THEN << <<"Detected language: ", d.val>> >> ELSE <<>>)
  /\ IF ~d.some
       THEN /\ textResult' = Err(<<"Could not detect language">>)
            /\ pc' = "ret"
       ELSE IF d.val = "English"
         THEN /\ textResult' = Ok(name)
              /\ pc' = "ret"
         ELSE /\ textResult' = textResult
              /\ pc' = "key"
  /\ UNCHANGED <<env, filename, name, ext, keyReads, requests, status, body,
                 stderr, result, zvars>>

\* a key step that sends the request whatever env::var returned
translate_text_key_unchecked ==
  /\ pc = "key"
  /\ keyReads' = keyReads + 1
  /\ requests' = requests \o
       << [authorization |-> <<"Bearer ", env>>, content |-> name] >>
  /\ pc' = "send"
  /\ UNCHANGED <<textResult, log>>
  /\ UNCHANGED <<env, filename, name, ext, detected, status, body, stderr,
                 result, zvars>>

\* lines 64-93: read the credential, fail when it is not set, else build
\* the request and send it
translate_text_key ==
  /\ pc = "key"
  /\ keyReads' = keyReads + 1
  /\ LET k == env_var(env)
     IN IF k.ok
          THEN /\ requests' = requests \o
                    << [authorization |-> <<"Bearer ", k.val>>, content |-> name] >>
               /\ pc' = "send"
               /\ UNCHANGED <<textResult, log>>
          ELSE /\ log' = log \o
                    << <<"Failed to get QWEN_API_KEY in translate_text: ", k.err>> >>
               /\ textResult' = Err(<<"QWEN_API_KEY environment variable not set">>)
               /\ pc' = "ret"
               /\ UNCHANGED requests
  /\ UNCHANGED <<env, filename, name, ext, detected, status, body, stderr,
                 result, zvars>>

\* a send that is tried once more when the transport fails
send_await_retry(o) ==
  /\ pc = "send"
  /\ IF o.ok
       THEN /\ status' = Some(o.val)
            /\ pc' = "text"
            /\ UNCHANGED <<textResult, requests>>
       ELSE IF Len(requests) < 2
         THEN /\ requests' = Append(requests, requests[1])
              /\ UNCHANGED <<pc, status, textResult>>
         ELSE /\ textResult' = Err(<<"reqwest::Error", o.err>>)
              /\ pc' = "ret"
              /\ UNCHANGED <<status, requests>>
  /\ UNCHANGED <<env, filename, name, ext, detected, keyReads, body,
                 log, stderr, result, zvars>>

\* line 94: .send().await? -- the transport fails, or a response with any
\* status arrives
send_await(o) ==
  /\ pc = "send"
  /\ IF o.ok
       THEN /\ status' = Some(o.val)
            /\ pc' = "text"
            /\ UNCHANGED textResult
       ELSE /\ textResult' = Err(<<"reqwest::Error", o.err>>)
            /\ pc' = "ret"
            /\ UNCHANGED status
  /\ UNCHANGED <<env, filename, name, ext, detected, keyReads, requests, body,
                 log, stderr, result, zvars>>

\* lines 96-112: response.text().await?, then parse the text and match
text_await(o) ==
  /\ pc = "text"
  /\ IF o.ok
       THEN LET parsed == from_str(o.val)
            IN /\ body' = Some(o.val)
               /\ stderr' = IF parsed.ok THEN stderr
                            ELSE stderr \o << <<"Response text: ", o.val>> >>
               /\ textResult' = match_parsed(parsed)
       ELSE /\ textResult' = Err(<<"reqwest::Error", o.err>>)
            /\ UNCHANGED <<body, stderr>>
  /\ pc' = "ret"
  /\ UNCHANGED <<env, filename, name, ext, detected, keyReads, requests,
                 status, log, result, zvars>>

\* lines 132-147: the result of translate_filename from translate_text's
translate_filename_result(r) ==
  IF r.ok
    THEN Ok(join_ext(replace_spaces(r.val), ext))
    ELSE Err(<<"Translation error for ", name, r.err>>)

translate_filename_ret ==
  /\ pc = "ret"
  /\ result' = translate_filename_result(textResult)
  /\ log' = log \o
       << IF textResult.ok
            THEN <<"Successfully translated to: ", result'.val>>
            ELSE result'.err >>
  /\ pc' = "done"
  /\ UNCHANGED <<env, filename, name, ext, detected, keyReads, requests,
                 status, body, textResult, stderr, zvars>>

SendOutcomes == {Err("connect")} \cup {Ok(st) : st \in HttpStatuses}
TextOutcomes == {Err("body")} \cup {Ok(b) : b \in Bodies}

Init ==
  /\ pc = "idle"
  /\ result = NoResult
  /\ env \in Environments
  /\ TIdle
  /\ ZIdle
  /\ fs = [p \in Paths |-> None]

Next ==
  \/ \E f \in Filenames : translate_filename_call(f)
  \/ \E d \in OptionOf(Languages) : translate_text_detect(d)
  \/ translate_text_key
  \/ \E o \in SendOutcomes : send_await(o)
  \/ \E o \in TextOutcomes : text_await(o)
  \/ translate_filename_ret

Spec == Init /\ [][Next]_vars

\* --------------------------------------------------------- create_zip_file

\* lines 155-159: File::create(path)?, ZipWriter::new(file)
create_zip_file_call(fl, create_ok) ==
  /\ pc = "idle"
  /\ files' = fl
  /\ IF create_ok
       THEN /\ created' = TRUE
            /\ pc' = IF fl = <<>> THEN "zip_finish" ELSE "zip_loop"
            /\ UNCHANGED result
       ELSE /\ result' = Err(<<"File::create">>)
            /\ pc' = "done"
            /\ UNCHANGED created
  /\ UNCHANGED <<archive, opened, fs, tvars>>

\* the archive after write_all(&buffer) failed part of the way: the entry
\* start_file began holds a proper prefix of the buffer
PartialEntries(fname, buffer) ==
  {[name |-> fname, data |-> SubSeq(buffer, 1, n), complete |-> FALSE] :
     n \in 0..(Len(buffer) - 1)}

\* a loop body that goes on to the next file when a source cannot be opened
zip_entry_skip(o) ==
  /\ pc = "zip_loop"
  /\ LET i == Len(opened) + 1
         src_path == files[i][1]
         fname == files[i][2]
         src_file == fs[src_path]
     IN /\ opened' = Append(opened, src_path)
        /\ IF ~src_file.some
             THEN /\ pc' = IF i < Len(files) THEN "zip_loop" ELSE "zip_finish"
                  /\ UNCHANGED <<archive, result>>
             ELSE LET buffer == src_file.val
                  IN CASE o = "read_err" ->
                            /\ result' = Err(<<"read_to_end", src_path>>)
                            /\ pc' = "done"
                            /\ UNCHANGED archive
                       [] o = "start_err" ->
                            /\ result' = Err(<<"start_file", fname>>)
                            /\ pc' = "done"
                            /\ UNCHANGED archive
                       [] o = "write_err" ->
                            /\ archive' \in
                                 {Append(archive, e) : e \in PartialEntries(fname, buffer)}
                            /\ result' = Err(<<"write_all", fname>>)
                            /\ pc' = "done"
                       [] o = "ok" ->
                            /\ archive' = Append(archive,
                                 [name |-> fname, data |-> buffer, complete |-> TRUE])
                            /\ pc' = IF i < Len(files) THEN "zip_loop" ELSE "zip_finish"
                            /\ UNCHANGED result
  /\ UNCHANGED <<files, fs, created, tvars>>

\* lines 161-168: one iteration of the loop; every ? returns the error
zip_entry(o) ==
  /\ pc = "zip_loop"
  /\ LET i == Len(opened) + 1
         src_path == files[i][1]
         fname == files[i][2]
         src_file == fs[src_path]
     IN /\ opened' = Append(opened, src_path)
        /\ IF ~src_file.some
             THEN /\ result' = Err(<<"File::open", src_path>>)
                  /\ pc' = "done"
                  /\ UNCHANGED archive
             ELSE LET buffer == src_file.val
                  IN CASE o = "read_err" ->
                            /\ result' = Err(<<"read_to_end", src_path>>)
                            /\ pc' = "done"
                            /\ UNCHANGED archive
                       [] o = "start_err" ->
                            /\ result' = Err(<<"start_file", fname>>)
                            /\ pc' = "done"
                            /\ UNCHANGED archive
                       [] o = "write_err" ->
                            /\ archive' \in
                                 {Append(archive, e) : e \in PartialEntries(fname, buffer)}
                            /\ result' = Err(<<"write_all", fname>>)
                            /\ pc' = "done"
                       [] o = "ok" ->
                            /\ archive' = Append(archive,
                                 [name |-> fname, data |-> buffer, complete |-> TRUE])
                            /\ pc' = IF i < Len(files) THEN "zip_loop" ELSE "zip_finish"
                            /\ UNCHANGED result
  /\ UNCHANGED <<files, fs, created, tvars>>

\* lines 170-171: zip.finish()?, Ok(())
zip_finish(finish_ok) ==
  /\ pc = "zip_finish"
  /\ result' = IF finish_ok THEN Ok(<<>>) ELSE Err(<<"finish">>)
  /\ pc' = "done"
  /\ UNCHANGED <<files, fs, created, archive, opened, tvars>>

EntryOutcomes == {"ok", "read_err", "start_err", "write_err"}

ZipInit ==
  /\ pc = "idle"
  /\ result = NoResult
  /\ env \in Environments
  /\ TIdle
  /\ ZIdle
  /\ fs \in FileSystems

ZipNext ==
  \/ \E fl \in FileLists, ok \in BOOLEAN : create_zip_file_call(fl, ok)
  \/ \E o \in EntryOutcomes : zip_entry(o)
  \/ \E ok \in BOOLEAN : zip_finish(ok)

ZipSpec == ZipInit /\ [][ZipNext]_vars

\* ================================================================= claims

HasDot(s) == \E k \in 1..Len(s) : s[k] = "."
HasSpace(s) == \E k \in 1..Len(s) : s[k] = " "

NonEnglish == detected.some /\ detected.val # "English"

\* the error translate_text returned, inside translate_filename's error
Cause(r) == r.err[3]
CauseParts(r) == {Cause(r)[k] : k \in 1..Len(Cause(r))}

IsDetectionError(r) == ~r.ok /\ Cause(r)[1] = "Could not detect language"
IsMissingCredential(r) ==
  ~r.ok /\ Cause(r)[1] = "QWEN_API_KEY environment variable not set"
IsNetworkError(r) == ~r.ok /\ Cause(r)[1] = "reqwest::Error"
IsRemoteApiError(r) == ~r.ok /\ Cause(r)[1] = "API Error: "
IsParseError(r) == ~r.ok /\ Cause(r)[1] = "Failed to parse API response: "

\* C1: when the stem is detected as English, translate_filename returns Ok
\* with the input file name byte for byte (no underscore for a space).
C1_EnglishUnchanged ==
  (pc = "done" /\ detected = Some("English")) => result = Ok(filename)

\* C2 (as claimed): with no credential configured, every translate_filename
\* call fails with the missing-credential error and sends no request.
C2_AlwaysMissingCredential ==
  (pc = "done" /\ ~env_var(env).ok) =>
     (IsMissingCredential(result) /\ requests = <<>>)

\* C2 (amended): with no credential configured no request is ever sent, and
\* the call fails with the missing-credential error exactly when the stem is
\* detected as a language other than English.
C2_MissingCredential ==
  ~env_var(env).ok =>
     /\ requests = <<>>
     /\ pc \notin {"send", "text"}
     /\ pc = "done" => (IsMissingCredential(result) <=> NonEnglish)
     /\ (pc = "done" /\ NonEnglish) =>
          result = Err(<<"Translation error for ", name,
                         <<"QWEN_API_KEY environment variable not set">> >>)

C2_Witness ==
  /\ pc = "done" /\ env = "NotPresent" /\ NonEnglish
  /\ IsMissingCredential(result) /\ keyReads = 1 /\ requests = <<>>

\* C3: when the detector returns no classification, translate_filename
\* fails with the detection error; the credential is not read and no
\* request is sent.
C3_Undetected ==
  (pc \notin {"idle", "detect"} /\ ~detected.some) =>
     /\ pc \in {"ret", "done"}
     /\ keyReads = 0
     /\ requests = <<>>
     /\ textResult = Err(<<"Could not detect language">>)
     /\ pc = "done" => IsDetectionError(result)

C3_Witness ==
  /\ pc = "done" /\ ~detected.some /\ HasLetter(name) /\ env = "sk-key"
  /\ IsDetectionError(result) /\ keyReads = 0

\* a body that parses as structured data and carries a code other than
\* "200" together with a message
ErrorShaped(b) ==
  b.json /\ b.code.some /\ b.code.val # "200" /\ b.message.some

\* C4: a structured body with a non-success code and a message, with or
\* without an output text, makes the call fail with a remote-API error that
\* carries that code and that message.
C4_RemoteApiError ==
  (pc = "done" /\ body.some /\ ErrorShaped(body.val)) =>
     /\ IsRemoteApiError(result)
     /\ body.val.code.val \in CauseParts(result)
     /\ body.val.message.val \in CauseParts(result)

\* a body of neither the success shape (an output text) nor the error shape
\* (a code and a message)
NeitherShape(b) ==
  ~b.json \/ (~b.output.some /\ ~(b.code.some /\ b.message.some))

\* C5 (as claimed): a body of neither shape makes the call fail with a parse
\* error whose value contains the raw body.
C5_ParseErrorCarriesBody ==
  (pc = "done" /\ body.some /\ NeitherShape(body.val)) =>
     (IsParseError(result) /\ Cause(result)[2] = body.val)

SerdeErrors ==
  {[serde |-> m] : m \in {"EOF while parsing an object", "expected value",
                          "missing field output"}}

\* C5 (amended): a body of neither shape makes the call fail with a parse
\* error; the raw body is printed on standard error, and the error value
\* holds the parser's message, not the body.
C5_ParseErrorBodyOnStderr ==
  (pc \in {"ret", "done"} /\ body.some /\ NeitherShape(body.val)) =>
     /\ ~textResult.ok
     /\ textResult.err[1] = "Failed to parse API response: "
     /\ textResult.err[2] \in SerdeErrors
     /\ stderr = << <<"Response text: ", body.val>> >>
     /\ pc = "done" =>
          (IsParseError(result) /\ Cause(result) = textResult.err)

C5_Witness ==
  /\ pc = "done" /\ body.some /\ body.val.json /\ ~body.val.output.some
  /\ ~body.val.code.some
  /\ IsParseError(result) /\ Len(stderr) = 1

\* C6: at most one request is sent in an invocation, exactly one when the
\* stem is detected as non-English and a credential is present, whatever
\* fails afterwards.
C6_OneRequest ==
  /\ Len(requests) <= 1
  /\ pc \in {"send", "text"} => Len(requests) = 1
  /\ pc \in {"ret", "done"} =>
       (Len(requests) = 1 <=> (NonEnglish /\ env_var(env).ok))

C6_Witness ==
  /\ pc = "done" /\ Len(requests) = 1 /\ status = None
  /\ IsNetworkError(result)

\* C7: a connection error or a non-2xx response is surfaced as a network
\* error; after a non-2xx response the body is not parsed.
C7_NetworkFailure ==
  (pc = "done" /\ Len(requests) = 1
     /\ (~status.some \/ status.val \notin 200..299)) =>
     (IsNetworkError(result) /\ body = None)

\* C8: the split is on the last '.': with a '.' in the file name,
\* stem + "." + extension is the file name and the extension has no '.';
\* with none, the stem is the file name and there is no extension.
C8_SplitLastDot ==
  pc # "idle" =>
     IF HasDot(filename)
       THEN /\ ext.some
            /\ name \o <<".">> \o ext.val = filename
            /\ ~HasDot(ext.val)
       ELSE name = filename /\ ext = None

C8_Witness ==
  /\ pc = "detect" /\ ext = Some(<<>>) /\ HasDot(name) /\ Len(filename) = 3

\* a body of the success shape: an output text and no non-success code
SuccessBody(b) ==
  b.json /\ b.output.some /\ (b.code.some => b.code.val = "200")

NonWhite(t) == {k \in 1..Len(t) : t[k] \notin {" ", "\t"}}
FirstNonWhite(t) == CHOOSE k \in NonWhite(t) : \A j \in NonWhite(t) : k <= j
LastNonWhite(t) == CHOOSE k \in NonWhite(t) : \A j \in NonWhite(t) : j <= k

\* stem is t without its leading and trailing whitespace, each space in
\* between replaced by an underscore
IsTrimmedUnderscored(stem, t) ==
  IF NonWhite(t) = {} THEN stem = <<>>
  ELSE /\ Len(stem) = LastNonWhite(t) - FirstNonWhite(t) + 1
       /\ \A k \in 1..Len(stem) :
            LET c == t[FirstNonWhite(t) + k - 1]
            IN stem[k] = IF c = " " THEN "_" ELSE c

\* C9: for a non-English stem and a successful remote answer T, the result
\* is trim(T) with spaces as underscores, then "." and the extension as it
\* was given when there is one; the returned stem holds no space.
C9_TranslatedName ==
  (pc = "done" /\ NonEnglish /\ body.some /\ SuccessBody(body.val)) =>
     /\ result.ok
     /\ LET r == result.val
            n == Len(r) - (IF ext.some THEN Len(ext.val) + 1 ELSE 0)
        IN /\ n >= 0
           /\ IsTrimmedUnderscored(SubSeq(r, 1, n), body.val.output.val)
           /\ ~HasSpace(SubSeq(r, 1, n))
           /\ ext.some => SubSeq(r, n + 1, Len(r)) = <<".">> \o ext.val

C9_Witness ==
  /\ pc = "done" /\ NonEnglish /\ ext.some /\ HasSpace(ext.val)
  /\ body.some /\ SuccessBody(body.val)
  /\ body.val.output.val = <<" ", "b", " ">>
  /\ result.ok

CompleteEntries == SelectSeq(archive, LAMBDA e : e.complete)

\* C10: the entries written to the archive are a prefix of the input list,
\* in order, each with the bytes of its source file; success means that all
\* of them are there; the first source that cannot be opened ends the call
\* with an error, no later file being read or written.
C10_ZipPrefix ==
  /\ Len(archive) <= Len(files)
  /\ Len(opened) <= Len(files)
  /\ \A k \in 1..Len(opened) : opened[k] = files[k][1]
  /\ \A k \in 1..Len(archive) :
       /\ archive[k].name = files[k][2]
       /\ archive[k].complete =>
            /\ fs[files[k][1]].some
            /\ archive[k].data = fs[files[k][1]].val
       /\ ~archive[k].complete =>
            (k = Len(archive) /\ pc = "done" /\ ~result.ok)
  /\ (pc = "done" /\ result.ok) =>
       /\ Len(archive) = Len(files)
       /\ CompleteEntries = archive
  /\ \A k \in 1..Len(files) :
       ~fs[files[k][1]].some =>
          /\ Len(opened) <= k
          /\ Len(archive) < k
          /\ Len(opened) = k =>
               (pc = "done" /\ result = Err(<<"File::open", files[k][1]>>))
          /\ pc = "done" => ~result.ok

C10_Witness ==
  /\ pc = "done" /\ Len(files) = 2
  /\ fs[files[1][1]].some /\ fs[files[1][1]].val = <<7, 9>>
  /\ ~fs[files[2][1]].some
  /\ Len(archive) = 1 /\ archive[1].complete
  /\ result = Err(<<"File::open", files[2][1]>>)

====
